---- MODULE Spec2Model ----
(***************************************************************************)
(* A model of exportt5.py: the script walks the list `models`, derives an  *)
(* output directory from every identifier, loads and converts the model,   *)
(* loads its tokenizer and saves both under the derived directory.         *)
(*                                                                         *)
(* Strings are sequences of one-character strings, so that str.split, the  *)
(* concatenation "onnx/" + model_name and pathlib's normalisation are      *)
(* computed, not assumed.  The external library calls either return or     *)
(* raise; nothing in the script catches what they raise.                   *)
(***************************************************************************)
EXTENDS Naturals, Sequences, FiniteSets

\* ------------------------------------------------------------------ bounds

\* longest identifier of the exhaustively enumerated one-element lists
MaxIdLen == 3
\* longest list built from the candidate identifiers
MaxModels == 2
\* how many times the script is run on the same filesystem
MaxRuns == 2

\* ----------------------------------------------------------------- strings

Slash == "/"
Dot == "."
Alphabet == {"a", "b", Slash, Dot}

Strings(n) == UNION {[1..k -> Alphabet] : k \in 0..n}

Some(v) == <<v>>
None == <<>>
Unwrap(o) == o[1]

\* str.split(sep): the segments between the separators, empty ones included
RECURSIVE split(_, _)
split(s, sep) ==
    IF \E k \in 1..Len(s) : s[k] = sep
    THEN LET k == CHOOSE k \in 1..Len(s) :
                      s[k] = sep /\ \A j \in 1..(k - 1) : s[j] # sep
         IN  <<SubSeq(s, 1, k - 1)>> \o split(SubSeq(s, k + 1, Len(s)), sep)
    ELSE <<s>>

\* sep.join(parts)
RECURSIVE join(_, _)
join(parts, sep) ==
    IF parts = <<>> THEN <<>>
    ELSE IF Len(parts) = 1 THEN Head(parts)
    ELSE Head(parts) \o <<sep>> \o join(Tail(parts), sep)

\* list[k] with Python's 0-based index; IndexError when InRange is false
InRange(l, k) == k < Len(l)
ListIndex(l, k) == l[k + 1]

\* ------------------------------------------------------- the configuration

\* lines 15-16: the two enabled identifiers
ConfiguredModels ==
    << <<"g","o","o","g","l","e","/","f","l","a","n","-","t","5","-","x","l">>,
       <<"g","o","o","g","l","e","/","f","l","a","n","-","t","5","-","x","x","l">> >>

\* identifiers the lists of several models are built from: two namespaces
\* with the same name, a second name, no "/", two "/", an empty name
Candidates ==
    { <<"a", Slash, "a">>, <<"b", Slash, "a">>, <<"a", Slash, "b">>,
      <<"b">>, <<"a", Slash, "b", Slash, "a">>, <<"a", Slash>> }

ListsOf(S, n) == UNION {[1..k -> S] : k \in 0..n}

ModelLists ==
    {ConfiguredModels}
        \cup ListsOf(Candidates, MaxModels)
        \cup {<<s>> : s \in Strings(MaxIdLen)}

\* ------------------------------------------------------ the path derivation

\* variant: the first element of the split result
SplitIndexZero == 1 - 1

\* line 20: the index into the split result
SplitIndex == 1

\* variant: split("/")[-1]
LastSegment(model_id) ==
    LET parts == split(model_id, Slash) IN ListIndex(parts, Len(parts) - 1)

\* variant: split("/")[0]
FirstSegment(model_id) == ListIndex(split(model_id, Slash), 0)

\* line 20: model_id.split("/")[1], an IndexError when there is no "/"
HasModelName(model_id) == InRange(split(model_id, Slash), SplitIndex)
ModelName(model_id) == ListIndex(split(model_id, Slash), SplitIndex)

OnnxPrefix == <<"o", "n", "n", "x", Slash>>

\* pathlib.Path(s) of a relative s, as its string: empty and "." components
\* are dropped, ".." is kept, and the empty path is "."
Path(s) ==
    LET kept == SelectSeq(split(s, Slash), LAMBDA x : x # <<>> /\ x # <<Dot>>)
    IN  IF kept = <<>> THEN <<Dot>> ELSE join(kept, Slash)

\* variant: Path("onnx" + model_name)
OnnxPathNoSlash(name) == Path(<<"o", "n", "n", "x">> \o name)

\* line 21: Path("onnx/" + model_name)
OnnxPath(name) == Path(OnnxPrefix \o name)

\* ----------------------------------------------------------- the filesystem

\* what a save writes: the artefact of the identifier it was loaded from
Blob(from, complete) == [from |-> from, complete |-> complete]

Content(fs, dir, kind) ==
    IF \E f \in fs : f.dir = dir /\ f.kind = kind
    THEN (CHOOSE f \in fs : f.dir = dir /\ f.kind = kind).content
    ELSE <<>>

\* variant: a save that appends to what is there
WriteAppend(old, blob) == old \o <<blob>>

\* save_pretrained writes its files over the ones already there
Write(old, blob) == <<blob>>

Store(fs, dir, kind, blob) ==
    {f \in fs : ~(f.dir = dir /\ f.kind = kind)}
        \cup {[dir |-> dir, kind |-> kind,
               content |-> Write(Content(fs, dir, kind), blob)]}

\* variant: a failed save removes the directory
FailedSaveCleanup(fs, dir, kind, from) == {{f \in fs : f.dir # dir}}

\* a save that raises leaves the directory as it was or partly written;
\* the script removes nothing
FailedSave(fs, dir, kind, from) ==
    {fs, Store(fs, dir, kind, Blob(from, FALSE))}

\* ---------------------------------------------------------------- the state

VARIABLES
    models,      \* the list of identifiers (lines 11-17)
    run,         \* which run of the script this is
    pc,          \* the statement about to execute
    i,           \* how many items the for loop has taken from the list
    model_id,    \* the loop variable
    model_name,  \* line 20
    onnx_path,   \* line 21
    model,       \* line 24: the identifier the converted model came from
    tokenizer,   \* line 25: the identifier the tokenizer came from
    calls,       \* the library calls of this run, in order
    error,       \* the uncaught exception that ended this run
    disk,        \* the files under onnx/
    prev         \* how the previous run ended and the files it left

vars == <<models, run, pc, i, model_id, model_name, onnx_path, model,
          tokenizer, calls, error, disk, prev>>

Call(op, arg, ok) == [op |-> op, arg |-> arg, ok |-> ok]

\* variant: the exception is caught and the loop continues
SwallowException == "for"

\* nothing catches an exception: the interpreter exits
Uncaught == "aborted"

Raise(step) ==
    /\ pc' = Uncaught
    /\ error' = Some([pos |-> i, step |-> step])

\* variant: the list is walked from its end
ItemReversed(l, k) == l[Len(l) + 1 - k]

\* the k-th item a for loop takes from a list
Item(l, k) == l[k]

\* variant: the loop stops one item early
ExhaustedEarly(l, k) == k + 1 >= Len(l)

\* the loop ends when k items were taken and the list holds no more
Exhausted(l, k) == k >= Len(l)

\* variant: the model is saved before the tokenizer is loaded
AfterSavingFirst(stmt) ==
    CASE stmt = "convert" -> "save_model"
      [] stmt = "save_model" -> "load_tokenizer"
      [] stmt = "load_tokenizer" -> "save_tokenizer"
      [] stmt = "save_tokenizer" -> "for"

\* lines 24-29: the order of the statements of the loop body
After(stmt) ==
    CASE stmt = "convert" -> "load_tokenizer"
      [] stmt = "load_tokenizer" -> "save_model"
      [] stmt = "save_model" -> "save_tokenizer"
      [] stmt = "save_tokenizer" -> "for"

Init ==
    /\ models \in ModelLists
    /\ run = 1
    /\ pc = "for"
    /\ i = 0
    /\ model_id = None
    /\ model_name = None
    /\ onnx_path = None
    /\ model = None
    /\ tokenizer = None
    /\ calls = <<>>
    /\ error = None
    /\ disk = {}
    /\ prev = None

\* line 19: for model_id in models
ForNext ==
    /\ pc = "for"
    /\ \/ /\ ~Exhausted(models, i)
          /\ i' = i + 1
          /\ model_id' = Some(Item(models, i + 1))
          /\ pc' = "derive"
       \/ /\ Exhausted(models, i)
          /\ pc' = "done"
          /\ UNCHANGED <<i, model_id>>
    /\ UNCHANGED <<models, run, model_name, onnx_path, model, tokenizer,
                   calls, error, disk, prev>>

\* lines 20-21
DerivePath ==
    /\ pc = "derive"
    /\ \/ /\ HasModelName(Unwrap(model_id))
          /\ model_name' = Some(ModelName(Unwrap(model_id)))
          /\ onnx_path' = Some(OnnxPath(ModelName(Unwrap(model_id))))
          /\ pc' = "convert"
          /\ UNCHANGED error
       \/ /\ ~HasModelName(Unwrap(model_id))
          /\ Raise("model_name")
          /\ UNCHANGED <<model_name, onnx_path>>
    /\ UNCHANGED <<models, run, i, model_id, model, tokenizer, calls, disk,
                   prev>>

\* line 24: ORTModelForSeq2SeqLM.from_pretrained(model_id, from_transformers=True)
Convert ==
    /\ pc = "convert"
    /\ \/ /\ calls' = Append(calls, Call("convert", Unwrap(model_id), TRUE))
          /\ model' = model_id
          /\ pc' = After("convert")
          /\ UNCHANGED error
       \/ /\ calls' = Append(calls, Call("convert", Unwrap(model_id), FALSE))
          /\ Raise("convert")
          /\ UNCHANGED model
    /\ UNCHANGED <<models, run, i, model_id, model_name, onnx_path, tokenizer,
                   disk, prev>>

\* line 25: AutoTokenizer.from_pretrained(model_id)
LoadTokenizer ==
    /\ pc = "load_tokenizer"
    /\ \/ /\ calls' = Append(calls,
                             Call("load_tokenizer", Unwrap(model_id), TRUE))
          /\ tokenizer' = model_id
          /\ pc' = After("load_tokenizer")
          /\ UNCHANGED error
       \/ /\ calls' = Append(calls,
                             Call("load_tokenizer", Unwrap(model_id), FALSE))
          /\ Raise("load_tokenizer")
          /\ UNCHANGED tokenizer
    /\ UNCHANGED <<models, run, i, model_id, model_name, onnx_path, model,
                   disk, prev>>

\* line 28: model.save_pretrained(onnx_path)
SaveModel ==
    /\ pc = "save_model"
    /\ \/ /\ calls' = Append(calls, Call("save_model", Unwrap(onnx_path), TRUE))
          /\ disk' = Store(disk, Unwrap(onnx_path), "model",
                           Blob(Unwrap(model), TRUE))
          /\ pc' = After("save_model")
          /\ UNCHANGED error
       \/ /\ calls' = Append(calls, Call("save_model", Unwrap(onnx_path), FALSE))
          /\ disk' \in FailedSave(disk, Unwrap(onnx_path), "model",
                                  Unwrap(model))
          /\ Raise("save_model")
    /\ UNCHANGED <<models, run, i, model_id, model_name, onnx_path, model,
                   tokenizer, prev>>

\* line 29: tokenizer.save_pretrained(onnx_path), the last statement of the body
SaveTokenizer ==
    /\ pc = "save_tokenizer"
    /\ \/ /\ calls' = Append(calls,
                             Call("save_tokenizer", Unwrap(onnx_path), TRUE))
          /\ disk' = Store(disk, Unwrap(onnx_path), "tokenizer",
                           Blob(Unwrap(tokenizer), TRUE))
          /\ pc' = After("save_tokenizer")
          /\ UNCHANGED error
       \/ /\ calls' = Append(calls,
                             Call("save_tokenizer", Unwrap(onnx_path), FALSE))
          /\ disk' \in FailedSave(disk, Unwrap(onnx_path), "tokenizer",
                                  Unwrap(tokenizer))
          /\ Raise("save_tokenizer")
    /\ UNCHANGED <<models, run, i, model_id, model_name, onnx_path, model,
                   tokenizer, prev>>

\* the script is started again: a new process over the files left behind
Rerun ==
    /\ pc \in {"done", "aborted"}
    /\ run < MaxRuns
    /\ run' = run + 1
    /\ prev' = Some([ok |-> (pc = "done"), disk |-> disk])
    /\ pc' = "for"
    /\ i' = 0
    /\ model_id' = None
    /\ model_name' = None
    /\ onnx_path' = None
    /\ model' = None
    /\ tokenizer' = None
    /\ calls' = <<>>
    /\ error' = None
    /\ UNCHANGED <<models, disk>>

Next ==
    \/ ForNext
    \/ DerivePath
    \/ Convert
    \/ LoadTokenizer
    \/ SaveModel
    \/ SaveTokenizer
    \/ Rerun

Spec == Init /\ [][Next]_vars

\* ------------------------------------------------- vocabulary of the claims

BodyStatements == {"convert", "load_tokenizer", "save_model", "save_tokenizer"}
SaveOps == {"save_model", "save_tokenizer"}

SlashPositions(s) == {k \in 1..Len(s) : s[k] = Slash}
FirstSlash(s) ==
    CHOOSE k \in SlashPositions(s) : \A j \in SlashPositions(s) : k <= j
LastSlash(s) ==
    CHOOSE k \in SlashPositions(s) : \A j \in SlashPositions(s) : j <= k

\* the text after the last "/"
AfterLastSlash(s) == SubSeq(s, LastSlash(s) + 1, Len(s))

\* the text between the first "/" and the second one, or the end
NameSegment(s) ==
    LET rest == SubSeq(s, FirstSlash(s) + 1, Len(s))
    IN  IF SlashPositions(rest) = {} THEN rest
        ELSE SubSeq(rest, 1, FirstSlash(rest) - 1)

\* "<ns>/<name>": one "/", a namespace, and a name that is a directory name
WellFormed(s) ==
    /\ Cardinality(SlashPositions(s)) = 1
    /\ 1 < FirstSlash(s)
    /\ FirstSlash(s) < Len(s)
    /\ AfterLastSlash(s) # <<Dot>>

\* a name that Path keeps as a component of its own
ProperName(s) == s # <<>> /\ s # <<Dot>>

\* no segment of the identifier is empty or "."
PlainSegments(s) ==
    \A k \in 1..Len(split(s, Slash)) : ProperName(split(s, Slash)[k])

\* the list holds well-formed identifiers, each of them once
WellFormedList ==
    /\ \A p \in 1..Len(models) : WellFormed(models[p])
    /\ \A p, q \in 1..Len(models) : p # q => models[p] # models[q]

\* the position in the list of the iteration that made the k-th call
PosOfCall(k) == ((k - 1) \div 4) + 1
IdOfCall(k) == models[PosOfCall(k)]

AllNamed == \A p \in 1..Len(models) : HasModelName(models[p])
DirOf(p) == OnnxPath(ModelName(models[p]))

IsPrefix(a, b) == Len(a) <= Len(b) /\ a = SubSeq(b, 1, Len(a))

\* the calls a run without failures makes, iteration after iteration
RECURSIVE ExpectedCalls(_)
ExpectedCalls(ms) ==
    IF ms = <<>> \/ ~HasModelName(Head(ms)) THEN <<>>
    ELSE LET id == Head(ms)
             dir == OnnxPath(ModelName(id))
         IN  << <<"convert", id>>, <<"load_tokenizer", id>>,
                <<"save_model", dir>>, <<"save_tokenizer", dir>> >>
                 \o ExpectedCalls(Tail(ms))

MadeCalls == [k \in DOMAIN calls |-> <<calls[k].op, calls[k].arg>>]

\* the files this run started from
StartDisk == IF prev = None THEN {} ELSE Unwrap(prev).disk

\* the files after the first n iterations of this run have saved their pair
RECURSIVE Replay(_)
Replay(n) ==
    IF n = 0 THEN StartDisk
    ELSE Store(Store(Replay(n - 1), DirOf(n), "model", Blob(models[n], TRUE)),
               DirOf(n), "tokenizer", Blob(models[n], TRUE))

Outside(fs, dir) == {f \in fs : f.dir # dir}

SavesTo(kind, dir) ==
    {k \in DOMAIN calls : calls[k].op = kind /\ calls[k].arg = dir}

SaveCalls == SelectSeq(calls, LAMBDA c : c.op \in SaveOps)

InListOrder ==
    /\ Len(SaveCalls) = 2 * Len(models)
    /\ \A p \in 1..Len(models) :
          /\ SaveCalls[2 * p - 1] = Call("save_model", DirOf(p), TRUE)
          /\ SaveCalls[2 * p] = Call("save_tokenizer", DirOf(p), TRUE)

WrittenOnce ==
    \A p \in 1..Len(models) :
        /\ Cardinality(SavesTo("save_model", DirOf(p))) = 1
        /\ Cardinality(SavesTo("save_tokenizer", DirOf(p))) = 1

DistinctDirs ==
    \A p, q \in 1..Len(models) : p # q => DirOf(p) # DirOf(q)

FlanT5Xl == <<"o","n","n","x","/","f","l","a","n","-","t","5","-","x","l">>
FlanT5Xxl == <<"o","n","n","x","/","f","l","a","n","-","t","5","-","x","x","l">>

\* ------------------------------------------------------------------- claims

\* C1: for a well-formed identifier "<ns>/<name>" the derived output directory
\* is exactly "onnx/<name>", and the model save and the tokenizer save of that
\* iteration are both called with it.
C1_OutputDirIsOnnxName ==
    /\ (pc \in BodyStatements /\ WellFormed(Unwrap(model_id)))
          => onnx_path = Some(OnnxPrefix \o AfterLastSlash(Unwrap(model_id)))
    /\ \A k \in DOMAIN calls :
          (calls[k].op \in SaveOps /\ WellFormed(IdOfCall(k)))
              => calls[k].arg = OnnxPrefix \o AfterLastSlash(IdOfCall(k))

\* the configured list ran to its end and both pairs of saves went to
\* onnx/flan-t5-xl and onnx/flan-t5-xxl
C1_Witness ==
    /\ models = ConfiguredModels
    /\ pc = "done"
    /\ calls[3].arg = FlanT5Xl /\ calls[4].arg = FlanT5Xl
    /\ calls[7].arg = FlanT5Xxl /\ calls[8].arg = FlanT5Xxl

\* C2: the calls of a run are, in order, the four calls of the first
\* identifier, then the four of the second, and so on: no call for position
\* i+1 comes before a call for position i.
C2_ListOrder == IsPrefix(MadeCalls, ExpectedCalls(models))

C2_Witness ==
    /\ Len(calls) = 8
    /\ calls[1].arg # calls[5].arg
    /\ calls[4].arg # calls[8].arg

\* C3: when the conversion raises for the model at position p, the run is
\* over: the failed conversion is its last call (no save for p, nothing for
\* p+1 onward) and the files are those the iterations before p left.
C3_ConvertFailureAborts ==
    \A p \in 1..Len(models) :
        error = Some([pos |-> p, step |-> "convert"])
            => /\ pc = "aborted"
               /\ Len(calls) = 4 * (p - 1) + 1
               /\ calls[Len(calls)] = Call("convert", models[p], FALSE)
               /\ disk = Replay(p - 1)

C3_Witness ==
    /\ error = Some([pos |-> 2, step |-> "convert"])
    /\ pc = "aborted"
    /\ disk # {}

C6_Original ==
    (pc \in BodyStatements /\ PlainSegments(Unwrap(model_id)))
        => model_name = Some(AfterLastSlash(Unwrap(model_id)))

\* C6, amended: for an identifier with at least one "/", the derived name is
\* the text between its first "/" and its second "/" (or its end); that is the
\* text after the last "/" when the identifier holds exactly one "/".
C6_NameIsSecondSegment ==
    pc \in BodyStatements
        => /\ SlashPositions(Unwrap(model_id)) # {}
           /\ model_name = Some(NameSegment(Unwrap(model_id)))
           /\ onnx_path = Some(Path(OnnxPrefix \o NameSegment(Unwrap(model_id))))
           /\ Cardinality(SlashPositions(Unwrap(model_id))) = 1
                 => model_name = Some(AfterLastSlash(Unwrap(model_id)))

C6_Witness ==
    /\ pc = "save_tokenizer"
    /\ Cardinality(SlashPositions(Unwrap(model_id))) = 2
    /\ model_name = Some(NameSegment(Unwrap(model_id)))
    /\ model_name # Some(AfterLastSlash(Unwrap(model_id)))

\* C7: when a save raises for the model at position p the run is over with
\* the failed save as its last call, and nothing is cleaned up: the files of
\* the other directories are those the iterations before p left, and when it
\* is the tokenizer save that failed, the model saved just before is still
\* there, complete.
C7_SaveFailureNoCleanup ==
    \A p \in 1..Len(models) :
        /\ error = Some([pos |-> p, step |-> "save_model"])
              => /\ pc = "aborted"
                 /\ Len(calls) = 4 * (p - 1) + 3
                 /\ calls[Len(calls)] = Call("save_model", DirOf(p), FALSE)
                 /\ Outside(disk, DirOf(p)) = Outside(Replay(p - 1), DirOf(p))
                 /\ Content(disk, DirOf(p), "tokenizer")
                       = Content(Replay(p - 1), DirOf(p), "tokenizer")
        /\ error = Some([pos |-> p, step |-> "save_tokenizer"])
              => /\ pc = "aborted"
                 /\ Len(calls) = 4 * p
                 /\ calls[Len(calls)] = Call("save_tokenizer", DirOf(p), FALSE)
                 /\ Outside(disk, DirOf(p)) = Outside(Replay(p - 1), DirOf(p))
                 /\ Content(disk, DirOf(p), "model") = <<Blob(models[p], TRUE)>>

C7_Witness ==
    /\ error = Some([pos |-> 2, step |-> "save_tokenizer"])
    /\ pc = "aborted"
    /\ DirOf(1) # DirOf(2)
    /\ Content(disk, DirOf(2), "model") = <<Blob(models[2], TRUE)>>
    /\ Content(disk, DirOf(1), "tokenizer") = <<Blob(models[1], TRUE)>>

\* C8: an identifier without "/" at position p makes the name derivation
\* raise: the loop never gets past the derivation of p, no call is made for p
\* or for a later position, and the files are those the iterations before p
\* left.
C8_NoSlashAborts ==
    \A p \in 1..Len(models) :
        SlashPositions(models[p]) = {}
            => /\ i <= p
               /\ Len(calls) <= 4 * (p - 1)
               /\ i = p => pc \in {"derive", "aborted"}
               /\ (i = p /\ pc = "aborted")
                     => /\ error = Some([pos |-> p, step |-> "model_name"])
                        /\ Len(calls) = 4 * (p - 1)
                        /\ disk = Replay(p - 1)

C8_Witness ==
    /\ Len(models) = 2
    /\ SlashPositions(models[2]) = {}
    /\ error = Some([pos |-> 2, step |-> "model_name"])
    /\ pc = "aborted"
    /\ Len(calls) = 4
    /\ disk # {}

\* C9: a second run over the files a first complete run left, itself
\* complete, leaves exactly the same files.
C9_SecondRunSameFiles ==
    (pc = "done" /\ prev # None /\ Unwrap(prev).ok)
        => disk = Unwrap(prev).disk

C9_Witness ==
    /\ pc = "done"
    /\ prev # None
    /\ Unwrap(prev).ok
    /\ Len(calls) = 8
    /\ disk # {}

\* C10: in an iteration the calls come in the order convert, load tokenizer,
\* save model, save tokenizer, the loads with the same identifier and the
\* saves with the same directory, each after the one before it returned; a
\* tokenizer load that raises is the last call of the run, so that nothing is
\* saved for that model, and the tokenizer is saved only where the model of
\* the same iteration is already saved, complete.
C10_OrderWithinIteration ==
    /\ \A k \in DOMAIN calls :
          /\ calls[k].op = "load_tokenizer"
                => /\ k >= 2
                   /\ calls[k - 1] = Call("convert", calls[k].arg, TRUE)
          /\ calls[k].op = "save_model"
                => /\ k >= 3
                   /\ calls[k - 1].op = "load_tokenizer" /\ calls[k - 1].ok
                   /\ calls[k - 2].op = "convert"
          /\ calls[k].op = "save_tokenizer"
                => /\ k >= 4
                   /\ calls[k - 1] = Call("save_model", calls[k].arg, TRUE)
    /\ pc = "save_tokenizer"
          => Content(disk, Unwrap(onnx_path), "model")
                = <<Blob(Unwrap(model_id), TRUE)>>
    /\ \A p \in 1..Len(models) :
          error = Some([pos |-> p, step |-> "load_tokenizer"])
              => /\ pc = "aborted"
                 /\ Len(calls) = 4 * (p - 1) + 2
                 /\ calls[Len(calls)] = Call("load_tokenizer", models[p], FALSE)
                 /\ disk = Replay(p - 1)

C10_Witness ==
    /\ error = Some([pos |-> 1, step |-> "load_tokenizer"])
    /\ pc = "aborted"
    /\ prev = None
    /\ disk = {}
    /\ Len(calls) = 2

====
